---- MODULE Spec2Model ----
(***************************************************************************)
(* Financial Sankey Agent: the pipeline orchestrator (orchestrate) as a    *)
(* state machine.  One action per awaited call of the function; every      *)
(* external call (parser, adapters, record store, blob store) either       *)
(* returns or throws.  Amounts of accuracy are in thousandths (per mille). *)
(***************************************************************************)
EXTENDS Integers, Sequences, FiniteSets, TLC

\* ---------------------------------------------------------------- bounds
MaxFlows == 2
MaxDiagram == 2
MaxTime == 1
MaxAdapterRetries == 5

\* ------------------------------------------------------ program constants
MAX_VERIFICATION_RETRIES == 3
DEFAULT_ACCURACY_THRESHOLD == 1
MinPdfSize == 100
VerifyMaxRetries == 0

VARIABLES
  input,               \* OrchestratorInput.financialStatement
  pc,                  \* position inside orchestrate
  retries,             \* let retries
  statementId,         \* let statementId (0 = null)
  extractedFlows,      \* let extractedFlows (<<>> = null, <<flows>> otherwise)
  diagramBuffer,       \* let diagramBuffer (-1 = unassigned)
  verificationResult,  \* let verificationResult (<<>> = undefined)
  verificationPassed,  \* let verificationPassed
  attempt,             \* loop variable of the verification loop
  caught,              \* the error value travelling to a catch block
  result,              \* the value the promise resolved with
  rejected,            \* the promise rejected
  dbStatus,            \* statements.status of the run's record
  dbFlows,             \* flows rows of the run's record
  dbVerification,      \* verifications rows of the run's record
  pdfBlob,             \* the blob stored under the run's pdf key
  diagramBlob,         \* the blob stored under the run's diagram key (-1 none)
  log,                 \* history of the external calls of the run
  \* one invocation of a stage adapter
  adapter,             \* which adapter runs: extraction, generation, ...
  maxRetries,          \* options.maxRetries
  optionsKey,          \* options.apiKey is given
  envKey,              \* process.env holds an API key
  inputOk,             \* the input passes the adapter's pre-conditions
  adapterAttempt,      \* let attempt of the adapter's loop
  adapterPc,           \* position inside the adapter
  lastError,           \* let lastError ("" = null): its message
  capCalls,            \* the invocations of the external capability
  sleeps,              \* the backoff sleeps taken
  failures,            \* the errors caught by the loop, one per failed attempt
  sizeChecked,         \* generateDiagram is the variant checking the size
  outcome,             \* what the adapter returned or threw
  \* one application of a pure function
  call,                \* the function applied and its arguments
  ret,                 \* <<>> before the application, <<value>> after it
  \* one request to POST /api/process
  routePc,             \* position inside the handler
  callerStatus,        \* statements.status of the record the caller named
  response,            \* the JSON response of the handler
  \* concurrent runs of orchestrate over one persistence store
  runPc,               \* position of each run
  runId,               \* let statementId of each run (0 = null)
  runAttempt,          \* loop variable of each run's verification loop
  nextId,              \* the id the record store gives to the next record
  records,             \* statements rows: id -> status and creating run
  blobs,               \* stored blobs: path -> the run whose bytes it holds
  storeWrites          \* history of the store operations of all runs

orchVars == <<input, pc, retries, statementId, extractedFlows, diagramBuffer,
              verificationResult, verificationPassed, attempt, caught, result,
              rejected, dbStatus, dbFlows, dbVerification, pdfBlob,
              diagramBlob, log>>

adVars == <<adapter, maxRetries, optionsKey, envKey, inputOk, adapterAttempt,
            adapterPc, lastError, capCalls, sleeps, failures, sizeChecked,
            outcome>>

pureVars == <<call, ret>>

routeVars == <<routePc, callerStatus, response>>

concVars == <<runPc, runId, runAttempt, nextId, records, blobs, storeWrites>>

vars == <<orchVars, adVars, pureVars, routeVars, concVars>>

\* --------------------------------------------------------------- inputs
Amounts == {100, 250}
FlowSeqs == UNION {[1..n -> Amounts] : n \in 1..MaxFlows}
Diagrams == 1..MaxDiagram
Accuracies == {0, 998, 999, 1000}
Times == 0..MaxTime

Inputs ==
  [kind : {"string", "file", "buffer"},
   len : {MinPdfSize - 1, MinPdfSize},
   header : {"%PDF", "JUNK"}]

\* validatePDF looking at the magic number only
validatePDFErrorHeaderOnly(buffer) ==
  IF buffer.header # "%PDF" THEN "Invalid PDF file: Missing PDF header"
  ELSE ""

\* validatePDF: size first, then the magic number
validatePDFError(buffer) ==
  IF buffer.len < MinPdfSize THEN "Invalid PDF file: File too small"
  ELSE IF buffer.header # "%PDF" THEN "Invalid PDF file: Missing PDF header"
  ELSE ""

\* the attempts of a stage adapter: attempt runs from 1 to maxRetries + 1
AdapterAttempts(m) == m + 1

\* passed decided on the accuracy alone
VerifiedOfAccuracyOnly(nDisc, acc, threshold) == acc >= 1000 - threshold

\* verifyDiagram's output: verified is computed by the adapter from the
\* discrepancies and the accuracy, never taken from the response
VerifiedOf(nDisc, acc, threshold) == nDisc = 0 /\ acc >= 1000 - threshold

VerificationOutputs ==
  {[verified |-> VerifiedOf(nd, a, DEFAULT_ACCURACY_THRESHOLD),
    accuracy |-> a, nDisc |-> nd] : nd \in 0..1, a \in Accuracies}

\* --------------------------------------------------------------- errors
\* a plain Error object: no code, no stage
RawError(msg) == [code |-> "", message |-> msg, stage |-> ""]

ExtractionError(e) ==
  [code |-> "EXTRACTION_ERROR", message |-> e.message, stage |-> "extraction"]

GenerationError(e) ==
  [code |-> "GENERATION_ERROR", message |-> e.message, stage |-> "generation"]

NoError == [code |-> "", message |-> "", stage |-> ""]

\* x || y of JavaScript for strings
OrElse(x, y) == IF x = "" THEN y ELSE x

\* ----------------------------------------------------------------- log
\* one entry per external call: its name, whether it returned (ok) or threw,
\* the diagram passed or returned, the verified flag returned, the status
\* written and the flows passed or returned
Entry(op, ok, diagram, verified, status, flows) ==
  [op |-> op, ok |-> ok, diagram |-> diagram, verified |-> verified,
   status |-> status, flows |-> flows]

Called(op, ok) == log' = Append(log, Entry(op, ok, -1, FALSE, "", <<>>))

CalledWith(op, ok, d, v, s) ==
  log' = Append(log, Entry(op, ok, d, v, s, <<>>))

CalledAdapter(op, ok, d, v, flows) ==
  log' = Append(log, Entry(op, ok, d, v, "", flows))

NoResult ==
  [success |-> FALSE, diagram |-> -1, reasoning |-> "", accuracy |-> 0,
   processingTime |-> 0, retries |-> 0, flowsExtracted |-> 0,
   hasError |-> FALSE, error |-> NoError]

NoOutcome ==
  [status |-> "none", confidence |-> 0, size |-> 0,
   message |-> [prefix |-> "", attempts |-> 0, last |-> ""]]

\* no adapter invocation is modelled step by step inside a run of orchestrate
AdapterIdle ==
  /\ adapter = "none"
  /\ maxRetries = 0
  /\ optionsKey = FALSE
  /\ envKey = TRUE
  /\ inputOk = TRUE
  /\ adapterAttempt = 1
  /\ adapterPc = "idle"
  /\ lastError = ""
  /\ capCalls = <<>>
  /\ sleeps = <<>>
  /\ failures = <<>>
  /\ sizeChecked = FALSE
  /\ outcome = NoOutcome

NoCall == [fn |-> "none"]

\* no pure function is applied
PureIdle ==
  /\ call = NoCall
  /\ ret = <<>>

NoResponse == [status |-> 0, success |-> FALSE, fromPipeline |-> FALSE]

\* no request to the processing endpoint is modelled
RouteIdle ==
  /\ routePc = "idle"
  /\ callerStatus = "none"
  /\ response = NoResponse

\* no concurrent runs are modelled
ConcIdle ==
  /\ runPc = <<>>
  /\ runId = <<>>
  /\ runAttempt = <<>>
  /\ nextId = 1
  /\ records = <<>>
  /\ blobs = {}
  /\ storeWrites = {}

Init ==
  /\ AdapterIdle
  /\ PureIdle
  /\ RouteIdle
  /\ ConcIdle
  /\ input \in Inputs
  /\ pc = "start"
  /\ retries = 0
  /\ statementId = 0
  /\ extractedFlows = <<>>
  /\ diagramBuffer = -1
  /\ verificationResult = <<>>
  /\ verificationPassed = FALSE
  /\ attempt = 1
  /\ caught = NoError
  /\ result = NoResult
  /\ rejected = FALSE
  /\ dbStatus = "none"
  /\ dbFlows = <<>>
  /\ dbVerification = <<>>
  /\ pdfBlob = FALSE
  /\ diagramBlob = -1
  /\ log = <<>>

\* a throw that lands in the outer catch block
ThrowOuter(e) == /\ caught' = e
                 /\ pc' = "outerCatch"

\* Step 1: input conversion and validatePDF
ParseInput ==
  /\ pc = "start"
  /\ IF input.kind = "string"
       THEN ThrowOuter(RawError("String input not yet supported"))
       ELSE IF validatePDFError(input) # ""
         THEN ThrowOuter(RawError(validatePDFError(input)))
         ELSE /\ pc' = "extractPDFText"
              /\ UNCHANGED caught
  /\ UNCHANGED <<input, retries, statementId, extractedFlows, diagramBuffer,
                 verificationResult, verificationPassed, attempt, result,
                 rejected, dbStatus, dbFlows, dbVerification, pdfBlob,
                 diagramBlob, log>>
  /\ UNCHANGED <<adVars, pureVars, routeVars, concVars>>

\* a failed text extraction that lets the run go on
ExtractPDFTextContinuesOnFailure ==
  /\ pc = "extractPDFText"
  /\ \/ Called("extractPDFText", TRUE)
     \/ Called("extractPDFText", FALSE)
  /\ pc' = "createStatement"
  /\ UNCHANGED <<input, retries, statementId, extractedFlows, diagramBuffer,
                 verificationResult, verificationPassed, attempt, result,
                 rejected, dbStatus, dbFlows, dbVerification, pdfBlob,
                 diagramBlob, caught>>
  /\ UNCHANGED <<adVars, pureVars, routeVars, concVars>>

ExtractPDFText ==
  /\ pc = "extractPDFText"
  /\ \/ /\ Called("extractPDFText", TRUE)
        /\ pc' = "createStatement"
        /\ UNCHANGED caught
     \/ /\ Called("extractPDFText", FALSE)
        /\ ThrowOuter(RawError("Failed to parse PDF"))
  /\ UNCHANGED <<input, retries, statementId, extractedFlows, diagramBuffer,
                 verificationResult, verificationPassed, attempt, result,
                 rejected, dbStatus, dbFlows, dbVerification, pdfBlob,
                 diagramBlob>>
  /\ UNCHANGED <<adVars, pureVars, routeVars, concVars>>

CreateStatement ==
  /\ pc = "createStatement"
  /\ \/ /\ CalledWith("createStatement", TRUE, -1, FALSE, "processing")
        /\ statementId' = 1
        /\ dbStatus' = "processing"
        /\ pc' = "uploadPDF"
        /\ UNCHANGED caught
     \/ /\ Called("createStatement", FALSE)
        /\ ThrowOuter(RawError("Failed to create statement"))
        /\ UNCHANGED <<statementId, dbStatus>>
  /\ UNCHANGED <<input, retries, extractedFlows, diagramBuffer,
                 verificationResult, verificationPassed, attempt, result,
                 rejected, dbFlows, dbVerification, pdfBlob, diagramBlob>>
  /\ UNCHANGED <<adVars, pureVars, routeVars, concVars>>

\* the upload of the input whose failure does not stop the run
UploadPDFContinuesOnFailure ==
  /\ pc = "uploadPDF"
  /\ \/ /\ Called("uploadPDF", TRUE)
        /\ pdfBlob' = TRUE
     \/ /\ Called("uploadPDF", FALSE)
        /\ UNCHANGED pdfBlob
  /\ pc' = "extract"
  /\ UNCHANGED <<input, retries, statementId, extractedFlows, diagramBuffer,
                 verificationResult, verificationPassed, attempt, result,
                 rejected, dbStatus, dbFlows, dbVerification, diagramBlob,
                 caught>>
  /\ UNCHANGED <<adVars, pureVars, routeVars, concVars>>

UploadPDF ==
  /\ pc = "uploadPDF"
  /\ \/ /\ Called("uploadPDF", TRUE)
        /\ pdfBlob' = TRUE
        /\ pc' = "extract"
        /\ UNCHANGED caught
     \/ /\ Called("uploadPDF", FALSE)
        /\ ThrowOuter(RawError("Failed to upload PDF"))
        /\ UNCHANGED pdfBlob
  /\ UNCHANGED <<input, retries, statementId, extractedFlows, diagramBuffer,
                 verificationResult, verificationPassed, attempt, result,
                 rejected, dbStatus, dbFlows, dbVerification, diagramBlob>>
  /\ UNCHANGED <<adVars, pureVars, routeVars, concVars>>

\* Step 2: extractFinancialData, insertFlows, updateStatementStatus inside
\* one try block whose catch marks the run failed and throws EXTRACTION_ERROR
ThrowExtraction(e) == /\ caught' = e
                      /\ pc' = "extractCatch"

Extract ==
  /\ pc = "extract"
  /\ \/ \E flows \in FlowSeqs :
          /\ CalledAdapter("extractFinancialData", TRUE, -1, FALSE, flows)
          /\ extractedFlows' = <<flows>>
          /\ pc' = "insertFlows"
          /\ UNCHANGED caught
     \/ /\ Called("extractFinancialData", FALSE)
        /\ ThrowExtraction(RawError("Extraction failed after attempts"))
        /\ UNCHANGED extractedFlows
  /\ UNCHANGED <<input, retries, statementId, diagramBuffer,
                 verificationResult, verificationPassed, attempt, result,
                 rejected, dbStatus, dbFlows, dbVerification, pdfBlob,
                 diagramBlob>>
  /\ UNCHANGED <<adVars, pureVars, routeVars, concVars>>

InsertFlows ==
  /\ pc = "insertFlows"
  /\ \/ /\ CalledAdapter("insertFlows", TRUE, -1, FALSE, extractedFlows[1])
        /\ dbFlows' = extractedFlows[1]
        /\ pc' = "updateProcessing"
        /\ UNCHANGED caught
     \/ /\ CalledAdapter("insertFlows", FALSE, -1, FALSE, extractedFlows[1])
        /\ ThrowExtraction(RawError("Failed to insert flows"))
        /\ UNCHANGED dbFlows
  /\ UNCHANGED <<input, retries, statementId, extractedFlows, diagramBuffer,
                 verificationResult, verificationPassed, attempt, result,
                 rejected, dbStatus, dbVerification, pdfBlob, diagramBlob>>
  /\ UNCHANGED <<adVars, pureVars, routeVars, concVars>>

UpdateProcessing ==
  /\ pc = "updateProcessing"
  /\ \/ /\ CalledWith("updateStatementStatus", TRUE, -1, FALSE, "processing")
        /\ dbStatus' = "processing"
        /\ pc' = "generate"
        /\ UNCHANGED caught
     \/ /\ CalledWith("updateStatementStatus", FALSE, -1, FALSE, "processing")
        /\ ThrowExtraction(RawError("Failed to update statement"))
        /\ UNCHANGED dbStatus
  /\ UNCHANGED <<input, retries, statementId, extractedFlows, diagramBuffer,
                 verificationResult, verificationPassed, attempt, result,
                 rejected, dbFlows, dbVerification, pdfBlob, diagramBlob>>
  /\ UNCHANGED <<adVars, pureVars, routeVars, concVars>>

\* a catch block of a stage: await updateStatementStatus(id, 'failed') with no
\* guard of its own, then throw the tagged error; when the update throws, its
\* error is the one that reaches the outer catch
StageCatch(tagged) ==
  /\ \/ /\ CalledWith("updateStatementStatus", TRUE, -1, FALSE, "failed")
        /\ dbStatus' = "failed"
        /\ ThrowOuter(tagged)
     \/ /\ CalledWith("updateStatementStatus", FALSE, -1, FALSE, "failed")
        /\ ThrowOuter(RawError("Failed to update statement"))
        /\ UNCHANGED dbStatus
  /\ UNCHANGED <<input, retries, statementId, extractedFlows, diagramBuffer,
                 verificationResult, verificationPassed, attempt, result,
                 rejected, dbFlows, dbVerification, pdfBlob, diagramBlob>>
  /\ UNCHANGED <<adVars, pureVars, routeVars, concVars>>

ExtractCatch ==
  /\ pc = "extractCatch"
  /\ StageCatch(ExtractionError(caught))

\* the stages receiving the first extracted flow only
StageFlowsFirstOnly == SubSeq(extractedFlows[1], 1, 1)

\* extractedFlows.flows, the argument of generateDiagram and verifyDiagram
StageFlows == extractedFlows[1]

\* Step 3: generateDiagram and uploadDiagram inside one try block whose catch
\* marks the run failed and throws GENERATION_ERROR
ThrowGeneration(e) == /\ caught' = e
                      /\ pc' = "generateCatch"

Generate ==
  /\ pc = "generate"
  /\ \/ \E d \in Diagrams :
          /\ CalledAdapter("generateDiagram", TRUE, d, FALSE, StageFlows)
          /\ diagramBuffer' = d
          /\ pc' = "uploadDiagram"
          /\ UNCHANGED caught
     \/ /\ CalledAdapter("generateDiagram", FALSE, -1, FALSE, StageFlows)
        /\ ThrowGeneration(RawError("Diagram generation failed after attempts"))
        /\ UNCHANGED diagramBuffer
  /\ UNCHANGED <<input, retries, statementId, extractedFlows,
                 verificationResult, verificationPassed, attempt, result,
                 rejected, dbStatus, dbFlows, dbVerification, pdfBlob,
                 diagramBlob>>
  /\ UNCHANGED <<adVars, pureVars, routeVars, concVars>>

UploadDiagram ==
  /\ pc = "uploadDiagram"
  /\ \/ /\ CalledWith("uploadDiagram", TRUE, diagramBuffer, FALSE, "")
        /\ diagramBlob' = diagramBuffer
        /\ pc' = "verify"
        /\ UNCHANGED caught
     \/ /\ CalledWith("uploadDiagram", FALSE, diagramBuffer, FALSE, "")
        /\ ThrowGeneration(RawError("Failed to upload diagram"))
        /\ UNCHANGED diagramBlob
  /\ UNCHANGED <<input, retries, statementId, extractedFlows, diagramBuffer,
                 verificationResult, verificationPassed, attempt, result,
                 rejected, dbStatus, dbFlows, dbVerification, pdfBlob>>
  /\ UNCHANGED <<adVars, pureVars, routeVars, concVars>>

GenerateCatch ==
  /\ pc = "generateCatch"
  /\ StageCatch(GenerationError(caught))

\* the loop running one iteration too many
LoopContinuesOneMore(a) == a <= MAX_VERIFICATION_RETRIES + 1

\* Step 4: the verification loop
\*   for (let attempt = 1; attempt <= MAX_VERIFICATION_RETRIES; attempt++)
LoopContinues(a) == a <= MAX_VERIFICATION_RETRIES

\* the regeneration stopping one attempt early
ShouldRegenerateEarlyStop(a) == a < MAX_VERIFICATION_RETRIES - 1

\* the regeneration also running after the final attempt
ShouldRegenerateAlways(a) == a <= MAX_VERIFICATION_RETRIES

\* the regeneration never running
ShouldRegenerateNever(a) == FALSE

\* if (attempt < MAX_VERIFICATION_RETRIES) inside the not-verified branch
ShouldRegenerate(a) == a < MAX_VERIFICATION_RETRIES

\* if (attempt === MAX_VERIFICATION_RETRIES) throw error, in the loop's catch
IsFinalAttempt(a) == a = MAX_VERIFICATION_RETRIES

\* the loop trusting the accuracy alone
VerificationPassesOnAccuracy(v) ==
  v.accuracy >= 1000 - DEFAULT_ACCURACY_THRESHOLD

\* if (verificationResult.verified) { verificationPassed = true; break }
VerificationPasses(v) == v.verified

\* retries++
IncrementRetries(r) == r + 1

\* attempt++ and the loop test
NextIteration ==
  /\ attempt' = attempt + 1
  /\ pc' = IF LoopContinues(attempt + 1) THEN "verify" ELSE "createVerification"

\* the catch block of the loop body
LoopCatch(e) ==
  IF IsFinalAttempt(attempt)
    THEN /\ ThrowOuter(e)
         /\ UNCHANGED <<retries, attempt>>
    ELSE /\ retries' = IncrementRetries(retries)
         /\ NextIteration
         /\ UNCHANGED caught

Verify ==
  /\ pc = "verify"
  /\ \/ \E v \in VerificationOutputs :
          /\ CalledAdapter("verifyDiagram", TRUE, diagramBuffer, v.verified,
                           StageFlows)
          /\ verificationResult' = <<v>>
          /\ IF VerificationPasses(v)
               THEN /\ verificationPassed' = TRUE
                    /\ pc' = "createVerification"
                    /\ UNCHANGED <<retries, attempt>>
               ELSE /\ UNCHANGED verificationPassed
                    /\ IF ShouldRegenerate(attempt)
                         THEN /\ retries' = IncrementRetries(retries)
                              /\ pc' = "regenerate"
                              /\ UNCHANGED attempt
                         ELSE /\ NextIteration
                              /\ UNCHANGED retries
          /\ UNCHANGED caught
     \/ /\ CalledAdapter("verifyDiagram", FALSE, diagramBuffer, FALSE,
                      StageFlows)
        /\ LoopCatch(RawError("Verification failed after 1 attempts"))
        /\ UNCHANGED <<verificationResult, verificationPassed>>
  /\ UNCHANGED <<input, statementId, extractedFlows, diagramBuffer, result,
                 rejected, dbStatus, dbFlows, dbVerification, pdfBlob,
                 diagramBlob>>
  /\ UNCHANGED <<adVars, pureVars, routeVars, concVars>>

Regenerate ==
  /\ pc = "regenerate"
  /\ \/ \E d \in Diagrams :
          /\ CalledAdapter("generateDiagram", TRUE, d, FALSE, StageFlows)
          /\ diagramBuffer' = d
          /\ pc' = "regenUpload"
          /\ UNCHANGED <<retries, attempt, caught>>
     \/ /\ CalledAdapter("generateDiagram", FALSE, -1, FALSE, StageFlows)
        /\ LoopCatch(RawError("Diagram generation failed after attempts"))
        /\ UNCHANGED diagramBuffer
  /\ UNCHANGED <<input, statementId, extractedFlows, verificationResult,
                 verificationPassed, result, rejected, dbStatus, dbFlows,
                 dbVerification, pdfBlob, diagramBlob>>
  /\ UNCHANGED <<adVars, pureVars, routeVars, concVars>>

RegenUpload ==
  /\ pc = "regenUpload"
  /\ \/ /\ CalledWith("uploadDiagram", TRUE, diagramBuffer, FALSE, "")
        /\ diagramBlob' = diagramBuffer
        /\ NextIteration
        /\ UNCHANGED <<retries, caught>>
     \/ /\ CalledWith("uploadDiagram", FALSE, diagramBuffer, FALSE, "")
        /\ LoopCatch(RawError("Failed to upload diagram"))
        /\ UNCHANGED diagramBlob
  /\ UNCHANGED <<input, statementId, extractedFlows, diagramBuffer,
                 verificationResult, verificationPassed, result, rejected,
                 dbStatus, dbFlows, dbVerification, pdfBlob>>
  /\ UNCHANGED <<adVars, pureVars, routeVars, concVars>>

\* if (verificationResult) await createVerification({...})
CreateVerification ==
  /\ pc = "createVerification"
  /\ IF verificationResult # <<>>
       THEN \/ /\ CalledWith("createVerification", TRUE, -1,
                             verificationPassed, "")
               /\ dbVerification' =
                    <<[accuracy |-> verificationResult[1].accuracy,
                       verified |-> verificationPassed]>>
               /\ pc' = "updateFinal"
               /\ UNCHANGED caught
            \/ /\ CalledWith("createVerification", FALSE, -1,
                             verificationPassed, "")
               /\ ThrowOuter(RawError("Failed to create verification"))
               /\ UNCHANGED dbVerification
       ELSE /\ pc' = "updateFinal"
            /\ UNCHANGED <<caught, dbVerification, log>>
  /\ UNCHANGED <<input, retries, statementId, extractedFlows, diagramBuffer,
                 verificationResult, verificationPassed, attempt, result,
                 rejected, dbStatus, dbFlows, pdfBlob, diagramBlob>>
  /\ UNCHANGED <<adVars, pureVars, routeVars, concVars>>

\* the final status written as completed whatever the verification said
FinalStatusAlwaysCompleted(passed) == "completed"

FinalStatus(passed) == IF passed THEN "completed" ELSE "failed"

\* the returned object dropping the diagram when verification did not pass
NormalResultEmptyOnFailure(t) ==
  [success |-> verificationPassed,
   diagram |-> IF verificationPassed THEN diagramBuffer ELSE 0,
   reasoning |-> IF verificationResult # <<>> THEN "report.reasoning"
                 ELSE "Verification completed",
   accuracy |-> IF verificationResult # <<>>
                THEN verificationResult[1].accuracy ELSE 0,
   processingTime |-> t,
   retries |-> retries,
   flowsExtracted |-> Len(extractedFlows[1]),
   hasError |-> FALSE,
   error |-> NoError]

\* the object returned at the end of the try block
NormalResult(t) ==
  [success |-> verificationPassed,
   diagram |-> diagramBuffer,
   reasoning |-> IF verificationResult # <<>> THEN "report.reasoning"
                 ELSE "Verification completed",
   accuracy |-> IF verificationResult # <<>>
                THEN verificationResult[1].accuracy ELSE 0,
   processingTime |-> t,
   retries |-> retries,
   flowsExtracted |-> Len(extractedFlows[1]),
   hasError |-> FALSE,
   error |-> NoError]

\* updateStatementStatus(completed | failed), then the return statement
UpdateFinal ==
  /\ pc = "updateFinal"
  /\ \/ /\ CalledWith("updateStatementStatus", TRUE, -1, FALSE,
                      FinalStatus(verificationPassed))
        /\ dbStatus' = FinalStatus(verificationPassed)
        /\ \E t \in Times : result' = NormalResult(t)
        /\ pc' = "done"
        /\ UNCHANGED caught
     \/ /\ CalledWith("updateStatementStatus", FALSE, -1, FALSE,
                      FinalStatus(verificationPassed))
        /\ ThrowOuter(RawError("Failed to update statement"))
        /\ UNCHANGED <<dbStatus, result>>
  /\ UNCHANGED <<input, retries, statementId, extractedFlows, diagramBuffer,
                 verificationResult, verificationPassed, attempt, rejected,
                 dbFlows, dbVerification, pdfBlob, diagramBlob>>
  /\ UNCHANGED <<adVars, pureVars, routeVars, concVars>>

\* the error result keeping the diagram produced so far
ErrorResultKeepsDiagram(e, t) ==
  [success |-> FALSE,
   diagram |-> IF diagramBuffer >= 0 THEN diagramBuffer ELSE 0,
   reasoning |-> OrElse(e.message, "Processing failed"),
   accuracy |-> 0,
   processingTime |-> t,
   retries |-> retries,
   flowsExtracted |-> IF extractedFlows # <<>> THEN Len(extractedFlows[1])
                      ELSE 0,
   hasError |-> TRUE,
   error |-> [code |-> OrElse(e.code, "UNKNOWN_ERROR"),
              message |-> OrElse(e.message, "An unknown error occurred"),
              stage |-> OrElse(e.stage, "parsing")]]

\* the object returned by the outer catch block
ErrorResult(e, t) ==
  [success |-> FALSE,
   diagram |-> 0,
   reasoning |-> OrElse(e.message, "Processing failed"),
   accuracy |-> 0,
   processingTime |-> t,
   retries |-> retries,
   flowsExtracted |-> IF extractedFlows # <<>> THEN Len(extractedFlows[1])
                      ELSE 0,
   hasError |-> TRUE,
   error |-> [code |-> OrElse(e.code, "UNKNOWN_ERROR"),
              message |-> OrElse(e.message, "An unknown error occurred"),
              stage |-> OrElse(e.stage, "parsing")]]

\* the status update of the outer catch without its own try/catch
OuterUpdateThrowsEscapes ==
  /\ rejected' = TRUE
  /\ pc' = "rejected"
  /\ UNCHANGED result

\* the outer catch: a guarded updateStatementStatus(failed) when a record
\* exists, then the error result
OuterUpdateThrows ==
  /\ \E t \in Times : result' = ErrorResult(caught, t)
  /\ pc' = "done"
  /\ UNCHANGED rejected

OuterCatch ==
  /\ pc = "outerCatch"
  /\ IF statementId # 0
       THEN \/ /\ CalledWith("updateStatementStatus", TRUE, -1, FALSE,
                             "failed")
               /\ dbStatus' = "failed"
               /\ \E t \in Times : result' = ErrorResult(caught, t)
               /\ pc' = "done"
               /\ UNCHANGED rejected
            \/ /\ CalledWith("updateStatementStatus", FALSE, -1, FALSE,
                             "failed")
               /\ OuterUpdateThrows
               /\ UNCHANGED dbStatus
       ELSE /\ \E t \in Times : result' = ErrorResult(caught, t)
            /\ pc' = "done"
            /\ UNCHANGED <<rejected, dbStatus, log>>
  /\ UNCHANGED <<input, retries, statementId, extractedFlows, diagramBuffer,
                 verificationResult, verificationPassed, attempt, caught,
                 dbFlows, dbVerification, pdfBlob, diagramBlob>>
  /\ UNCHANGED <<adVars, pureVars, routeVars, concVars>>

Next ==
  \/ ParseInput
  \/ ExtractPDFText
  \/ CreateStatement
  \/ UploadPDF
  \/ Extract
  \/ InsertFlows
  \/ UpdateProcessing
  \/ ExtractCatch
  \/ Generate
  \/ UploadDiagram
  \/ GenerateCatch
  \/ Verify
  \/ Regenerate
  \/ RegenUpload
  \/ CreateVerification
  \/ UpdateFinal
  \/ OuterCatch

Spec == Init /\ [][Next]_vars

\* every external call eventually returns or throws, and the run is scheduled
FairSpec == Spec /\ WF_vars(Next)

TypeOK ==
  /\ pc \in {"start", "extractPDFText", "createStatement", "uploadPDF",
             "extract", "insertFlows", "updateProcessing", "extractCatch",
             "generate", "uploadDiagram", "generateCatch", "verify",
             "regenerate", "regenUpload", "createVerification", "updateFinal",
             "outerCatch", "done", "rejected", "idle"}
  /\ retries \in Nat
  /\ attempt \in 1..(MAX_VERIFICATION_RETRIES + 2)

\* ------------------------------------------------- observations of a run
ExtractCalls == SelectSeq(log, LAMBDA e : e.op = "extractFinancialData")

GenerateCalls == SelectSeq(log, LAMBDA e : e.op = "generateDiagram")

VerifyCalls == SelectSeq(log, LAMBDA e : e.op = "verifyDiagram")

Returned == pc = "done"

\* extraction returned and no call after it threw
AfterExtractionNoThrow ==
  \E i \in 1..Len(log) :
    /\ log[i].op = "extractFinancialData"
    /\ \A j \in i..Len(log) : log[j].ok

SomeVerified == \E k \in 1..Len(VerifyCalls) : VerifyCalls[k].verified

FirstVerified ==
  CHOOSE k \in 1..Len(VerifyCalls) :
    /\ VerifyCalls[k].verified
    /\ \A j \in 1..(k - 1) : ~VerifyCalls[j].verified

AllThreeNotVerified ==
  /\ Len(VerifyCalls) = MAX_VERIFICATION_RETRIES
  /\ \A k \in 1..Len(VerifyCalls) : ~VerifyCalls[k].verified

\* the run returned from the end of the try block with verificationPassed
\* false: the third verification returned verified=false and the
\* verification record and the status were persisted
ExhaustedReturn ==
  /\ Len(log) >= 2
  /\ log[Len(log)].op = "updateStatementStatus"
  /\ log[Len(log)].ok
  /\ log[Len(log) - 1].op = "createVerification"
  /\ log[Len(log) - 1].ok
  /\ ~log[Len(log) - 1].verified

ExtractThrew == ExtractCalls # <<>> /\ ~ExtractCalls[1].ok

FirstGenerationThrew == GenerateCalls # <<>> /\ ~GenerateCalls[1].ok

ParsingFailed ==
  \/ input.kind = "string"
  \/ validatePDFError(input) # ""
  \/ \E i \in 1..Len(log) : log[i].op = "extractPDFText" /\ ~log[i].ok

WellFormedResult ==
  /\ result.success \in BOOLEAN
  /\ result.diagram \in 0..MaxDiagram
  /\ result.reasoning # ""
  /\ result.accuracy \in 0..1000
  /\ result.processingTime \in Nat
  /\ result.retries \in Nat
  /\ result.flowsExtracted \in Nat

\* -------------------------------------------------------------- claims

\* C1: a result with success=true means that the most recent verification
\* call of the run returned verified=true and was made on exactly the diagram
\* returned in the result.
C1_SuccessMeansLastVerifyPassed ==
  (Returned /\ result.success) =>
    /\ VerifyCalls # <<>>
    /\ VerifyCalls[Len(VerifyCalls)].ok
    /\ VerifyCalls[Len(VerifyCalls)].verified
    /\ VerifyCalls[Len(VerifyCalls)].diagram = result.diagram

C1_Witness ==
  /\ Returned
  /\ result.success
  /\ Len(VerifyCalls) = 3
  /\ result.diagram # GenerateCalls[1].diagram

\* C2: the verification capability is called at most 3 times in a run: at
\* most MAX_VERIFICATION_RETRIES adapter invocations, each of maxRetries = 0,
\* that is of one attempt.
C2_AtMostThreeVerifications ==
  /\ VerifyMaxRetries = 0
  /\ Len(VerifyCalls) * AdapterAttempts(VerifyMaxRetries) <= 3
  /\ Len(VerifyCalls) <= MAX_VERIFICATION_RETRIES

C2_Witness ==
  /\ Returned
  /\ Len(VerifyCalls) = 3
  /\ \E k \in 1..3 : ~VerifyCalls[k].ok

\* C3: metadata.retries of the returned result never exceeds 3, whatever the
\* verification outcomes and the regeneration and upload outcomes are.
C3_RetriesAtMostThree ==
  Returned => result.retries <= 3

\* C4: when nothing throws after extraction and verification first returns
\* verified=true on attempt k, the result has success=true and retries=k-1,
\* and generation and verification were each invoked exactly k times.
C4_FirstPassOnAttemptK ==
  (Returned /\ AfterExtractionNoThrow /\ SomeVerified) =>
    /\ FirstVerified \in 1..3
    /\ result.success
    /\ result.retries = FirstVerified - 1
    /\ Len(GenerateCalls) = FirstVerified
    /\ Len(VerifyCalls) = FirstVerified

C4_Witness ==
  /\ Returned
  /\ AfterExtractionNoThrow
  /\ SomeVerified
  /\ FirstVerified = 3

\* C5: when verification returns verified=false on all 3 attempts and nothing
\* throws, the result has success=false and retries=2, nothing is regenerated
\* after the final attempt, and flowsExtracted is the number of flows the
\* extraction adapter returned.
C5_AllAttemptsFail ==
  (Returned /\ AfterExtractionNoThrow /\ AllThreeNotVerified) =>
    /\ ~result.success
    /\ result.retries = 2
    /\ Len(GenerateCalls) = 3
    /\ log[Len(log) - 2].op = "verifyDiagram"
    /\ result.flowsExtracted = Len(ExtractCalls[1].flows)

C5_Witness ==
  /\ Returned
  /\ AfterExtractionNoThrow
  /\ AllThreeNotVerified
  /\ result.flowsExtracted = MaxFlows

\* C6: provided every external call returns or throws, every run eventually
\* resolves with a well-formed result and never rejects.
C6_EventuallyResolves ==
  <>(Returned /\ ~rejected /\ WellFormedResult)

C6_Witness ==
  /\ Returned
  /\ ~rejected
  /\ result.hasError
  /\ log # <<>>
  /\ log[Len(log)].op = "updateStatementStatus"
  /\ ~log[Len(log)].ok

C8_ExtractionFailure ==
  (Returned /\ ExtractThrew) =>
    /\ ~result.success
    /\ result.error.code = "EXTRACTION_ERROR"
    /\ result.error.stage = "extraction"
    /\ result.flowsExtracted = 0
    /\ dbStatus = "failed"
    /\ GenerateCalls = <<>>
    /\ VerifyCalls = <<>>

\* C9: when extraction returned n flows and the first generation call throws,
\* the result is a failure with code GENERATION_ERROR, stage generation and
\* flowsExtracted=n, and verification is never invoked.
C9_GenerationFailure ==
  (Returned /\ FirstGenerationThrew) =>
    /\ ~result.success
    /\ result.error.code = "GENERATION_ERROR"
    /\ result.error.stage = "generation"
    /\ result.flowsExtracted = Len(ExtractCalls[1].flows)
    /\ VerifyCalls = <<>>

\* C10: when input validation or document parsing fails, the result is a
\* failure whose error has code PDF_ERROR and stage parsing.
C10_ParsingFailure ==
  (Returned /\ ParsingFailed) =>
    /\ ~result.success
    /\ result.hasError
    /\ result.error.code = "PDF_ERROR"
    /\ result.error.stage = "parsing"

\* the verification adapter threw on the third attempt
FinalVerifyThrew ==
  /\ Len(VerifyCalls) = MAX_VERIFICATION_RETRIES
  /\ ~VerifyCalls[MAX_VERIFICATION_RETRIES].ok

\* the diagram of the last generateDiagram call that returned
LastGeneratedDiagram ==
  LET ok == SelectSeq(GenerateCalls, LAMBDA e : e.ok)
  IN  IF ok = <<>> THEN -1 ELSE ok[Len(ok)].diagram

IsAdapterCall(e) ==
  e.op \in {"extractFinancialData", "generateDiagram", "verifyDiagram"}

\* no call to updateStatementStatus of the run threw
StatusUpdatesReturned ==
  \A i \in 1..Len(log) : log[i].op = "updateStatementStatus" => log[i].ok

\* C11: an adapter failure that ends the run is reported with the code and
\* stage of the adapter that failed; a verification adapter exception on the
\* third attempt yields VERIFICATION_ERROR and stage verification.  (The
\* extraction and generation stages are stated for runs whose status updates
\* returned, where their catch blocks do tag the error.)
C11_AdapterFailureTagged ==
  /\ (Returned /\ FinalVerifyThrew) =>
       /\ result.hasError
       /\ result.error.code = "VERIFICATION_ERROR"
       /\ result.error.stage = "verification"
  /\ (Returned /\ ExtractThrew /\ StatusUpdatesReturned) =>
       result.error.stage = "extraction"
  /\ (Returned /\ FirstGenerationThrew /\ StatusUpdatesReturned) =>
       result.error.stage = "generation"

\* C12: when a stage fails and the update to status failed fails as well, the
\* update failure is swallowed and the returned error keeps the code, the
\* stage and the message of the stage failure.
C12_StatusFailureNeverMasks ==
  /\ (Returned /\ ExtractThrew) =>
       result.error =
         ExtractionError(RawError("Extraction failed after attempts"))
  /\ (Returned /\ FirstGenerationThrew) =>
       result.error =
         GenerationError(RawError("Diagram generation failed after attempts"))

\* C13 (as stated): when a run that created a record returns, the persisted
\* status is completed for success=true and failed for success=false, never
\* processing.
C13_StatusMirrorsSuccess ==
  (Returned /\ statementId # 0) =>
    dbStatus = IF result.success THEN "completed" ELSE "failed"

\* C13 (amended): the persisted status is completed exactly when the result
\* has success=true; for success=false it is failed when the last status
\* update of the run returned, and it stays at the status last written
\* (processing or failed) when that update threw and was swallowed.
C13_StatusMirrorsSuccessWhenStored ==
  (Returned /\ statementId # 0) =>
    /\ log[Len(log)].op = "updateStatementStatus"
    /\ (dbStatus = "completed") <=> result.success
    /\ (~result.success /\ log[Len(log)].ok) => dbStatus = "failed"
    /\ (~result.success /\ ~log[Len(log)].ok) =>
         dbStatus \in {"processing", "failed"}

C13_Witness ==
  /\ Returned
  /\ statementId # 0
  /\ ~result.success
  /\ ~log[Len(log)].ok
  /\ dbStatus = "processing"

\* C14 (as stated): when the cycle is exhausted without a pass, or the
\* verification adapter throws on the final cycle, the result carries the
\* last produced diagram and, when a report exists, the last report.
C14_FailureKeepsDiagram ==
  (Returned /\ (AllThreeNotVerified \/ FinalVerifyThrew)) =>
    /\ result.diagram = LastGeneratedDiagram
    /\ verificationResult # <<>> =>
         /\ result.accuracy = verificationResult[1].accuracy
         /\ result.reasoning = "report.reasoning"

\* C14 (amended): the result returned after an exhausted cycle carries the
\* last produced diagram and the reasoning and accuracy of the last report;
\* when the verification adapter throws on the final cycle the result comes
\* from the error handler, with an empty diagram, accuracy 0 and the error
\* message as reasoning.
C14_ExhaustedKeepsThrowDrops ==
  /\ (Returned /\ ExhaustedReturn) =>
       /\ ~result.success
       /\ result.diagram = LastGeneratedDiagram
       /\ result.diagram >= 1
       /\ result.accuracy = verificationResult[1].accuracy
       /\ result.reasoning = "report.reasoning"
  /\ (Returned /\ FinalVerifyThrew) =>
       /\ ~result.success
       /\ result.diagram = 0
       /\ result.accuracy = 0
       /\ result.reasoning = result.error.message

C14_Witness ==
  /\ Returned
  /\ FinalVerifyThrew
  /\ verificationResult # <<>>
  /\ LastGeneratedDiagram >= 1
  /\ result.diagram = 0

\* C15: a failed generation call, the first one or a regeneration, ends the
\* run with a generation-tagged error and no adapter is invoked after it.
\* (The tag is stated for runs whose status updates returned.)
C15_GenerationFailureIsFatal ==
  Returned =>
    \A i \in 1..Len(log) :
      (log[i].op = "generateDiagram" /\ ~log[i].ok) =>
        /\ ~result.success
        /\ StatusUpdatesReturned => result.error.stage = "generation"
        /\ \A j \in (i + 1)..Len(log) : ~IsAdapterCall(log[j])

\* ---------------------------------------------------- the stage adapters
(***************************************************************************)
(* extractFinancialData, generateDiagram and verifyDiagram share one loop: *)
(*   for (attempt = 1; attempt <= maxRetries + 1; attempt++)               *)
(*     try   { build the prompt; call the capability; validate; return }   *)
(*     catch { lastError = error; if (attempt > maxRetries) throw ...;     *)
(*             await sleep(calculateBackoff(attempt)) }                    *)
(* One invocation is modelled step by step: each capability call returns a *)
(* response or fails, each sleep is a step.                                *)
(***************************************************************************)
Adapters == {"extraction", "generation", "verification"}

\* confidence of a schema-valid extraction response, in thousandths
Confidences == {0, 499, 500, 1000}

\* if (imageBuffer.length < 1024): the smallest plausible image, in bytes
MinImageSize == 1024

\* the size in bytes of the image payload of a generation response (0: none)
PayloadSizes == {0, 1, MinImageSize - 1, MinImageSize}

\* if (!imageData)
NoPayload(sz) == sz = 0

\* if (imageBuffer.length < 1024), in the variant of generateDiagram built
\* on @google/genai only
PayloadTooSmall(sz) == sz < MinImageSize

\* the messages of the errors an attempt can fail with before or while
\* validating the response: transport, output schema, payload
FailureMessages(a) ==
  CASE a = "extraction" ->
         {"API error", "Quota exceeded", "Expected number, received string"}
    [] a = "generation" -> {"API error"}
    [] a = "verification" ->
         {"API error", "Failed to parse verification response",
          "Expected number, received string"}

\* lastError.message.includes('quota') || includes('Quota exceeded')
IsQuotaMessage(msg) == msg = "Quota exceeded"

\* lastError.message.includes('JSON parsing') || includes('Expected')
IsJsonMessage(msg) == msg = "Expected number, received string"

FailedAfterPrefix(a) ==
  CASE a = "extraction" -> "Extraction failed after"
    [] a = "generation" -> "Diagram generation failed after"
    [] a = "verification" -> "Verification failed after"

\* the Error thrown when the last attempt failed
FinalMessage(a, m, last) ==
  IF a = "extraction" /\ IsQuotaMessage(last)
    THEN [prefix |-> "API quota exceeded", attempts |-> 0, last |-> last]
  ELSE IF a = "extraction" /\ IsJsonMessage(last)
    THEN [prefix |-> "JSON parsing failed", attempts |-> 0, last |-> last]
  ELSE [prefix |-> FailedAfterPrefix(a), attempts |-> m + 1, last |-> last]

\* an Error thrown before the loop or after it
PlainMessage(text) == [prefix |-> text, attempts |-> 0, last |-> ""]

\* the backoff without its cap
calculateBackoffUncapped(a) == 1000 * 2 ^ (a - 1)

\* Math.min(1000 * Math.pow(2, attempt - 1), 10000)
calculateBackoff(a) ==
  IF 1000 * 2 ^ (a - 1) < 10000 THEN 1000 * 2 ^ (a - 1) ELSE 10000

\* for (...; attempt <= maxRetries + 1; ...)
AdapterLoopContinues(a, m) == a <= m + 1

\* the last attempt taken for one attempt too early
IsLastAttemptTooEarly(a, m) == a >= m

\* if (attempt > maxRetries) throw
IsLastAttempt(a, m) == a > m

\* the confidence test rejecting the boundary too
ConfidenceTooLowInclusive(c) == c <= 500

\* if (validated.confidence < 0.5) throw
ConfidenceTooLow(c) == c < 500

\* lastError kept from the first failure on
NextLastErrorKeepsFirst(old, new) == IF old = "" THEN new ELSE old

\* lastError = error
NextLastError(old, new) == new

\* attempt === 1 ? base prompt : retry prompt with lastError?.message
Framing(a, last) ==
  IF a = 1 THEN [kind |-> "base", priorError |-> ""]
  ELSE [kind |-> "retry", priorError |-> OrElse(last, "Unknown error")]

AdapterInit ==
  /\ input = [kind |-> "buffer", len |-> MinPdfSize, header |-> "%PDF"]
  /\ pc = "idle"
  /\ retries = 0
  /\ statementId = 0
  /\ extractedFlows = <<>>
  /\ diagramBuffer = -1
  /\ verificationResult = <<>>
  /\ verificationPassed = FALSE
  /\ attempt = 1
  /\ caught = NoError
  /\ result = NoResult
  /\ rejected = FALSE
  /\ dbStatus = "none"
  /\ dbFlows = <<>>
  /\ dbVerification = <<>>
  /\ pdfBlob = FALSE
  /\ diagramBlob = -1
  /\ log = <<>>
  /\ adapter \in Adapters
  /\ maxRetries \in 0..MaxAdapterRetries
  /\ optionsKey \in BOOLEAN
  /\ envKey \in BOOLEAN
  /\ inputOk \in IF adapter = "extraction" THEN {TRUE} ELSE BOOLEAN
  /\ adapterAttempt = 1
  /\ adapterPc = "start"
  /\ lastError = ""
  /\ capCalls = <<>>
  /\ sleeps = <<>>
  /\ failures = <<>>
  /\ sizeChecked \in IF adapter = "generation" THEN BOOLEAN ELSE {FALSE}
  /\ outcome = NoOutcome
  /\ PureIdle
  /\ RouteIdle
  /\ ConcIdle

AdapterThrows(msg) ==
  /\ outcome' = [status |-> "threw", confidence |-> 0, size |-> 0,
                 message |-> msg]
  /\ adapterPc' = "done"

AdapterReturns(c, sz) ==
  /\ outcome' = [status |-> "returned", confidence |-> c, size |-> sz,
                 message |-> PlainMessage("")]
  /\ adapterPc' = "done"

\* the checks before the loop: the API key, then the input
AdapterPrecheck ==
  /\ adapterPc = "start"
  /\ IF ~(optionsKey \/ envKey)
       THEN AdapterThrows(PlainMessage("API key is required"))
       ELSE IF ~inputOk
         THEN AdapterThrows(PlainMessage("input is required"))
         ELSE /\ adapterPc' = "attempt"
              /\ UNCHANGED outcome
  /\ UNCHANGED <<adapter, maxRetries, optionsKey, envKey, inputOk,
                 adapterAttempt, lastError, capCalls, sleeps, failures,
                 sizeChecked>>
  /\ UNCHANGED <<orchVars, pureVars, routeVars, concVars>>

\* the catch block of the loop body; c is the confidence of the response the
\* error was raised for (-1 when there was no valid response)
AdapterCatch(msg, c) ==
  /\ failures' = Append(failures, [message |-> msg, confidence |-> c])
  /\ lastError' = NextLastError(lastError, msg)
  /\ IF IsLastAttempt(adapterAttempt, maxRetries)
       THEN AdapterThrows(
              FinalMessage(adapter, maxRetries, NextLastError(lastError, msg)))
       ELSE /\ adapterPc' = "sleep"
            /\ UNCHANGED outcome

\* one iteration of the loop up to the return or the catch
AdapterAttempt ==
  /\ adapterPc = "attempt"
  /\ IF ~AdapterLoopContinues(adapterAttempt, maxRetries)
       THEN /\ AdapterThrows(PlainMessage("Maximum retries exceeded"))
            /\ UNCHANGED <<envKey, lastError, capCalls, failures>>
       ELSE /\ capCalls' =
                 Append(capCalls,
                        [attempt |-> adapterAttempt,
                         framing |-> Framing(adapterAttempt, lastError)])
            /\ envKey' = IF adapter = "extraction" THEN TRUE ELSE envKey
            /\ \/ \E msg \in FailureMessages(adapter) :
                    AdapterCatch(msg, -1)
               \/ \E c \in Confidences :
                    /\ adapter # "generation"
                    /\ IF adapter = "extraction" /\ ConfidenceTooLow(c)
                         THEN AdapterCatch("Low confidence extraction", c)
                         ELSE /\ AdapterReturns(c, 0)
                              /\ UNCHANGED <<lastError, failures>>
               \/ \E sz \in PayloadSizes :
                    /\ adapter = "generation"
                    /\ IF NoPayload(sz)
                         THEN AdapterCatch("No image data found in response",
                                           -1)
                         ELSE IF sizeChecked /\ PayloadTooSmall(sz)
                           THEN AdapterCatch("Image data too small", -1)
                           ELSE /\ AdapterReturns(0, sz)
                                /\ UNCHANGED <<lastError, failures>>
  /\ UNCHANGED <<adapter, maxRetries, optionsKey, inputOk, adapterAttempt,
                 sleeps, sizeChecked>>
  /\ UNCHANGED <<orchVars, pureVars, routeVars, concVars>>

\* await sleep(calculateBackoff(attempt)), then attempt++
AdapterSleep ==
  /\ adapterPc = "sleep"
  /\ sleeps' = Append(sleeps, [after |-> adapterAttempt,
                               ms |-> calculateBackoff(adapterAttempt)])
  /\ adapterAttempt' = adapterAttempt + 1
  /\ adapterPc' = "attempt"
  /\ UNCHANGED <<adapter, maxRetries, optionsKey, envKey, inputOk, lastError,
                 capCalls, failures, sizeChecked, outcome>>
  /\ UNCHANGED <<orchVars, pureVars, routeVars, concVars>>

AdapterNext ==
  \/ AdapterPrecheck
  \/ AdapterAttempt
  \/ AdapterSleep

AdapterSpec == AdapterInit /\ [][AdapterNext]_vars

\* -------------------------------------------- observations of an adapter
AdapterDone == adapterPc = "done"

AdapterReturned == AdapterDone /\ outcome.status = "returned"

\* the adapter threw from its loop, that is after passing its pre-conditions
AdapterGaveUp ==
  /\ AdapterDone
  /\ outcome.status = "threw"
  /\ outcome.message.prefix \notin {"API key is required", "input is required"}

ExpectedBackoff(a) ==
  CASE a = 1 -> 1000
    [] a = 2 -> 2000
    [] a = 3 -> 4000
    [] a = 4 -> 8000
    [] OTHER -> 10000

OnlyLowConfidence ==
  /\ failures # <<>>
  /\ \A i \in 1..Len(failures) :
       failures[i].message = "Low confidence extraction"

\* C16: an adapter called with maxRetries = m and valid pre-conditions invokes
\* the capability at most m+1 times, once per attempt, whatever the kind of
\* the failures; exactly m+1 times when every attempt fails; and never again
\* after the first successful attempt.
C16_AtMostMPlusOneInvocations ==
  /\ Len(capCalls) <= maxRetries + 1
  /\ \A i \in 1..Len(capCalls) : capCalls[i].attempt = i
  /\ AdapterGaveUp =>
       /\ Len(capCalls) = maxRetries + 1
       /\ Len(failures) = maxRetries + 1
  /\ AdapterReturned => Len(capCalls) = Len(failures) + 1

C16_Witness ==
  /\ AdapterGaveUp
  /\ maxRetries >= 2
  /\ Len(capCalls) = maxRetries + 1
  /\ failures[1].message = "API error"
  /\ failures[2].message = "Expected number, received string"

\* C17: after failed attempt a that is not the last allowed one the adapter
\* sleeps min(1000 * 2^(a-1), 10000) ms (1000, 2000, 4000, 8000, then 10000),
\* and it never sleeps after the last attempt or after a successful one.
C17_BackoffSchedule ==
  /\ \A i \in 1..Len(sleeps) :
       /\ sleeps[i].after = i
       /\ sleeps[i].ms = ExpectedBackoff(i)
  /\ Len(sleeps) <= maxRetries
  /\ Len(sleeps) <= Len(failures)
  /\ AdapterDone => Len(sleeps) = Len(capCalls) - 1 \/ capCalls = <<>>
  /\ AdapterGaveUp => Len(sleeps) = Len(failures) - 1
  /\ AdapterReturned => Len(sleeps) = Len(failures)

C17_Witness ==
  /\ AdapterDone
  /\ Len(sleeps) >= 5
  /\ sleeps[5].ms = 10000

\* C18: attempt 1 uses the base framing and every attempt a > 1 the retry
\* framing with the failure message of attempt a-1.
C18_RetryFramingUsesPreviousError ==
  \A i \in 1..Len(capCalls) :
    IF i = 1
      THEN capCalls[i].framing.kind = "base"
      ELSE /\ capCalls[i].framing.kind = "retry"
           /\ capCalls[i].framing.priorError = failures[i - 1].message

C18_Witness ==
  /\ Len(capCalls) >= 3
  /\ failures[1].message # failures[2].message
  /\ capCalls[3].framing.priorError = failures[2].message

\* C19: in the extraction adapter a schema-valid response with confidence
\* below 0.5 ends the invocation at once: no further attempt and no backoff
\* sleep follow it, even when attempts remain.
C19_LowConfidencePropagatesAtOnce ==
  \A i \in 1..Len(failures) :
    failures[i].message = "Low confidence extraction" =>
      /\ Len(capCalls) = i
      /\ Len(sleeps) < i
      /\ adapterPc = "done"

\* C20: the extraction adapter returns a schema-valid response exactly when
\* its confidence is at least 0.5, the boundary included; when every response
\* has a confidence below 0.5 it fails with a message containing
\* "Low confidence".
C20_ConfidenceThreshold ==
  adapter = "extraction" =>
    /\ AdapterReturned => outcome.confidence >= 500
    /\ \A i \in 1..Len(failures) :
         failures[i].confidence # -1 =>
           /\ failures[i].confidence < 500
           /\ failures[i].message = "Low confidence extraction"
    /\ (AdapterGaveUp /\ OnlyLowConfidence) =>
         outcome.message.last = "Low confidence extraction"

C20_Witness ==
  /\ adapter = "extraction"
  /\ AdapterReturned
  /\ outcome.confidence = 500
  /\ OnlyLowConfidence
  /\ failures[1].confidence = 499

\* C21: when the final attempt of a stage adapter fails, the adapter fails
\* with a message that states the total attempt count maxRetries + 1 and
\* contains the message of the last underlying error, whatever the kind of
\* that error, and it returns no data.
C21_FinalFailureStatesAttempts ==
  AdapterGaveUp =>
    /\ outcome.message.attempts = maxRetries + 1
    /\ outcome.message.last = failures[Len(failures)].message
    /\ outcome.confidence = 0

\* C22: no step of a stage adapter invocation changes state shared with
\* other invocations: the API-key environment variables and the input are
\* the same after every step as before it, on success and on failure.
C22_NoSharedStateChange ==
  [][envKey' = envKey /\ inputOk' = inputOk]_vars

\* C26: a generation attempt fails, consuming an attempt, when the response
\* holds no image payload or one smaller than 1024 bytes; generateDiagram
\* never returns a diagram of fewer than 1024 bytes.
C26_SmallImageRejected ==
  (adapter = "generation" /\ AdapterReturned) => outcome.size >= 1024

(***************************************************************************)
(* Pure functions of the verification adapter and of the response          *)
(* formatter.  One behaviour applies one function once: Init draws the     *)
(* function and its arguments, the action computes the value.  A number    *)
(* that need not be an integer is a fraction num / den; undefined and null *)
(* are the empty sequence, a present value v is <<v>>.                     *)
(***************************************************************************)
MaxDiscrepancies == 2

Abs(x) == IF x < 0 THEN -x ELSE x

Finite(n, d) == [inf |-> FALSE, num |-> n, den |-> d]

PlusInfinity == [inf |-> TRUE, num |-> 1, den |-> 1]

\* a ?? b
Coalesce(opt, default) == IF opt # <<>> THEN opt[1] ELSE default

\* the percentage error keeping the sign of the difference
calculatePercentageErrorSigned(expected, actual) ==
  IF expected = 0
    THEN IF actual = 0 THEN Finite(0, 1) ELSE PlusInfinity
    ELSE Finite((actual - expected) * 100, expected)

\* Math.abs((actual - expected) / expected) * 100
calculatePercentageError(expected, actual) ==
  IF expected = 0
    THEN IF actual = 0 THEN Finite(0, 1) ELSE PlusInfinity
    ELSE Finite(Abs(actual - expected) * 100, Abs(expected))

ErrorOperands == {-100, 0, 90, 100, 110}

PercentageCalls ==
  {[fn |-> "calculatePercentageError", expected |-> e, actual |-> a] :
     e \in ErrorOperands, a \in ErrorOperands}

\* --------------------------- verifyDiagram: from the response to the output
\* overallAccuracy of the raw response: absent, or a number in thousandths
RawAccuracies == {<<>>, <<998>>, <<999>>, <<1000>>, <<1001>>}

\* input.threshold in thousandths
Thresholds == {0, 1, 2}

\* a discrepancy as the capability states it; percentageError in percent
RawDiscrepancy ==
  {[expected |-> 100, actual |-> 110, percentageError |-> p] :
     p \in {-10, 0, 10}}

\* discrepancies of the raw response: absent, or a list
RawDiscrepancyLists ==
  {<<>>} \cup
  {<<ds>> : ds \in UNION {[1..n -> RawDiscrepancy] :
                            n \in 0..MaxDiscrepancies}}

VerifyCallsPure ==
  {[fn |-> "verifyResponse", overallAccuracy |-> acc, discrepancies |-> ds,
    claimedVerified |-> cv, flowsTotal |-> ft, threshold |-> t] :
     acc \in RawAccuracies, ds \in RawDiscrepancyLists, cv \in BOOLEAN,
     ft \in 1..MaxFlows, t \in Thresholds}

\* VerificationReportSchema.parse: the constraints on the numbers
ReportSchemaOk(overallAccuracy, flowsVerified, flowsTotal) ==
  /\ overallAccuracy >= 0
  /\ overallAccuracy <= 1000
  /\ flowsVerified >= 0
  /\ flowsTotal > 0

\* Math.max(0, Math.min(1, overallAccuracy * (1 - nDisc / max(flowsTotal, 1))))
ConfidenceScore(overallAccuracy, nDisc, flowsTotal) ==
  LET raw == (overallAccuracy * (flowsTotal - nDisc)) \div flowsTotal
  IN  IF raw < 0 THEN 0 ELSE IF raw > 1000 THEN 1000 ELSE raw

\* the part of one attempt of verifyDiagram after the response was parsed
verifyResponse(parsed) ==
  LET flowsTotal == parsed.flowsTotal
      overallAccuracy == Coalesce(parsed.overallAccuracy, 0)
      discrepancies == Coalesce(parsed.discrepancies, <<>>)
      flowsVerified == flowsTotal - Len(discrepancies)
      passed == VerifiedOf(Len(discrepancies), overallAccuracy,
                           parsed.threshold)
  IN  IF ~ReportSchemaOk(overallAccuracy, flowsVerified, flowsTotal)
        THEN [ok |-> FALSE]
        ELSE [ok |-> TRUE,
              verified |-> passed,
              accuracy |-> overallAccuracy,
              discrepancies |-> discrepancies,
              report |-> [overallAccuracy |-> overallAccuracy,
                          flowsVerified |-> flowsVerified,
                          flowsTotal |-> flowsTotal,
                          discrepancies |-> discrepancies,
                          passed |-> passed,
                          confidenceScore |->
                            ConfidenceScore(overallAccuracy,
                                            Len(discrepancies), flowsTotal)]]

\* ------------------------------------------------- the response formatter
ErrorCodes ==
  {"PDF_ERROR", "EXTRACTION_ERROR", "GENERATION_ERROR", "VERIFICATION_ERROR",
   "UNKNOWN_ERROR"}

\* error.stage: "" when it is not given
StagesPure == {"", "generation"}

ErrorsPure ==
  {[code |-> c, message |-> "failed", stage |-> st] :
     c \in ErrorCodes, st \in StagesPure}

\* partialResults.flows: absent, or a list of flows (their amounts)
PartialFlows == {<<>>, << <<>> >>, << <<100>> >>, << <<100, 250>> >>}

\* partialResults.flowsCount: absent, or a number
PartialCounts == {<<>>} \cup {<<n>> : n \in 0..(MaxFlows + 1)}

\* the argument partialResults: absent, or an object
PartialResultsArgs ==
  {<<>>} \cup
  {<<[flows |-> fs, flowsCount |-> n]>> :
     fs \in PartialFlows, n \in PartialCounts}

\* only the stage errors taken for recoverable
RecoverableStageErrorsOnly(code) ==
  code \in {"EXTRACTION_ERROR", "GENERATION_ERROR", "VERIFICATION_ERROR"}

\* recoverable: code !== 'UNKNOWN_ERROR'
Recoverable(code) == code # "UNKNOWN_ERROR"

\* the count taken from the flows before the stated count
PartialCountFlowsFirst(partialResults) ==
  IF partialResults = <<>> THEN 0
  ELSE IF partialResults[1].flows # <<>>
    THEN Len(partialResults[1].flows[1])
    ELSE Coalesce(partialResults[1].flowsCount, 0)

\* partialResults?.flowsCount ?? partialResults?.flows?.length ?? 0
PartialCount(partialResults) ==
  IF partialResults = <<>> THEN 0
  ELSE Coalesce(partialResults[1].flowsCount,
                IF partialResults[1].flows # <<>>
                  THEN Len(partialResults[1].flows[1]) ELSE 0)

\* formatProcessingTime: "Nms", "N.Ns" (tenths, rounded) or "Mm Ss"
formatProcessingTime(ms) ==
  IF ms < 1000 THEN [unit |-> "ms", a |-> ms, b |-> 0]
  ELSE IF ms < 60000
    THEN [unit |-> "s", a |-> ((ms + 50) \div 100) \div 10,
          b |-> ((ms + 50) \div 100) % 10]
    ELSE [unit |-> "m s", a |-> ms \div 60000, b |-> (ms % 60000) \div 1000]

formatErrorResponse(error, partialResults) ==
  [success |-> FALSE,
   diagram |-> <<>>,
   verification |-> [verified |-> FALSE,
                     accuracy |-> 0,
                     confidenceScore |-> 0,
                     reasoning |-> error.message,
                     flowsVerified |-> 0,
                     flowsTotal |-> PartialCount(partialResults),
                     discrepancies |-> <<>>],
   processing |-> [time |-> 0,
                   timeFormatted |-> [unit |-> "ms", a |-> 0, b |-> 0],
                   retries |-> 0,
                   flowsExtracted |-> PartialCount(partialResults)],
   error |-> <<[code |-> error.code,
                message |-> error.message,
                stage |-> error.stage,
                recoverable |-> Recoverable(error.code)]>>,
   partialResults |->
     IF partialResults = <<>> THEN <<>>
     ELSE <<[flows |-> partialResults[1].flows,
             flowsCount |->
               IF partialResults[1].flowsCount # <<>>
                 THEN partialResults[1].flowsCount
               ELSE IF partialResults[1].flows # <<>>
                 THEN <<Len(partialResults[1].flows[1])>>
                 ELSE <<>>]>>]

\* partial results attached to responses carrying an error only
AttachPartialResultsOnError(output) ==
  output.hasError /\ output.flowsExtracted > 0

\* if (!output.success && output.metadata.flowsExtracted > 0)
AttachPartialResults(output) ==
  ~output.success /\ output.flowsExtracted > 0

\* output.diagram.toString('base64') of a non-empty buffer
Base64(d) == [encoding |-> "base64", of |-> d]

formatResponse(output, verificationReport, includeDiagram) ==
  [success |-> output.success,
   diagram |-> IF includeDiagram /\ output.diagram > 0
               THEN <<[image |-> Base64(output.diagram),
                       format |-> "image/png"]>>
               ELSE <<>>,
   verification |->
     [verified |-> output.success,
      accuracy |-> output.accuracy,
      confidenceScore |->
        IF verificationReport # <<>>
          THEN verificationReport[1].confidenceScore
          ELSE IF output.success THEN 950 ELSE 0,
      reasoning |-> output.reasoning,
      flowsVerified |->
        IF verificationReport # <<>>
          THEN verificationReport[1].flowsVerified ELSE 0,
      flowsTotal |->
        IF verificationReport # <<>>
          THEN verificationReport[1].flowsTotal ELSE output.flowsExtracted,
      discrepancies |->
        IF verificationReport # <<>>
          THEN verificationReport[1].discrepancies ELSE <<>>],
   processing |-> [time |-> output.processingTime,
                   timeFormatted |->
                     formatProcessingTime(output.processingTime),
                   retries |-> output.retries,
                   flowsExtracted |-> output.flowsExtracted],
   error |-> IF output.hasError
             THEN <<[code |-> output.error.code,
                     message |-> output.error.message,
                     stage |-> output.error.stage,
                     recoverable |-> Recoverable(output.error.code)]>>
             ELSE <<>>,
   partialResults |->
     IF AttachPartialResults(output)
       THEN <<[flows |-> <<>>, flowsCount |-> <<output.flowsExtracted>>]>>
       ELSE <<>>]

\* processing times on each side of the two limits of formatProcessingTime
TimesPure == {0, 1550, 61000}

\* the OrchestratorOutput objects handed to formatResponse
OutputsPure ==
  {[success |-> ok, diagram |-> d, reasoning |-> "reasoning",
    accuracy |-> IF ok THEN 1000 ELSE 0, processingTime |-> t,
    retries |-> 0, flowsExtracted |-> n, hasError |-> FALSE,
    error |-> NoError] :
     ok \in BOOLEAN, d \in {0, 1}, t \in TimesPure, n \in 0..MaxFlows}
  \cup
  {[success |-> FALSE, diagram |-> 0, reasoning |-> e.message,
    accuracy |-> 0, processingTime |-> t, retries |-> 0,
    flowsExtracted |-> n, hasError |-> TRUE, error |-> e] :
     t \in TimesPure, n \in 0..MaxFlows, e \in ErrorsPure}

\* options.verificationReport: absent, or a report of verifyDiagram
ReportsPure ==
  {<<>>} \cup
  {<<[overallAccuracy |-> 1000, flowsVerified |-> ft - Len(ds),
      flowsTotal |-> ft, discrepancies |-> ds, passed |-> ds = <<>>,
      confidenceScore |-> 900]>> :
     ft \in 1..MaxFlows,
     ds \in {<<>>,
             <<[expected |-> 100, actual |-> 110, percentageError |-> 10]>>}}

FormatErrorCalls ==
  {[fn |-> "formatErrorResponse", error |-> e, partialResults |-> pr] :
     e \in ErrorsPure, pr \in PartialResultsArgs}

FormatCalls ==
  {[fn |-> "formatResponse", output |-> o, verificationReport |-> vr,
    includeDiagram |-> inc] :
     o \in OutputsPure, vr \in ReportsPure, inc \in BOOLEAN}

\* buffer.toString('ascii', 0, 4) of a buffer with the given first bytes
HeaderOf(len, first) ==
  IF len >= 4 THEN first
  ELSE IF len = 0 THEN ""
  ELSE IF first = "%PDF" THEN "%PD" ELSE "JUN"

\* buffers around the two limits of validatePDF
BufferLengths == {0, 3, 4, MinPdfSize - 1, MinPdfSize, MinPdfSize + 1}

ValidateCalls ==
  {[fn |-> "validatePDF",
    buffer |-> [kind |-> "buffer", len |-> n, header |-> HeaderOf(n, f)]] :
     n \in BufferLengths, f \in {"%PDF", "JUNK"}}

\* validatePDF returns true or throws an Error with a message
validatePDF(buffer) ==
  IF validatePDFError(buffer) = ""
    THEN [threw |-> FALSE, value |-> TRUE, message |-> ""]
    ELSE [threw |-> TRUE, value |-> FALSE,
          message |-> validatePDFError(buffer)]

PureCalls ==
  PercentageCalls \cup VerifyCallsPure \cup FormatErrorCalls \cup FormatCalls
    \cup ValidateCalls

PureInit ==
  /\ input = [kind |-> "buffer", len |-> MinPdfSize, header |-> "%PDF"]
  /\ pc = "idle"
  /\ retries = 0
  /\ statementId = 0
  /\ extractedFlows = <<>>
  /\ diagramBuffer = -1
  /\ verificationResult = <<>>
  /\ verificationPassed = FALSE
  /\ attempt = 1
  /\ caught = NoError
  /\ result = NoResult
  /\ rejected = FALSE
  /\ dbStatus = "none"
  /\ dbFlows = <<>>
  /\ dbVerification = <<>>
  /\ pdfBlob = FALSE
  /\ diagramBlob = -1
  /\ log = <<>>
  /\ AdapterIdle
  /\ RouteIdle
  /\ ConcIdle
  /\ call \in PureCalls
  /\ ret = <<>>

Applied(fn) == call.fn = fn /\ ret # <<>>

ApplyCalculatePercentageError ==
  /\ call.fn = "calculatePercentageError"
  /\ ret = <<>>
  /\ ret' = <<calculatePercentageError(call.expected, call.actual)>>
  /\ UNCHANGED <<call, orchVars, adVars, routeVars, concVars>>

ApplyVerifyResponse ==
  /\ call.fn = "verifyResponse"
  /\ ret = <<>>
  /\ ret' = <<verifyResponse(call)>>
  /\ UNCHANGED <<call, orchVars, adVars, routeVars, concVars>>

ApplyFormatErrorResponse ==
  /\ call.fn = "formatErrorResponse"
  /\ ret = <<>>
  /\ ret' = <<formatErrorResponse(call.error, call.partialResults)>>
  /\ UNCHANGED <<call, orchVars, adVars, routeVars, concVars>>

ApplyFormatResponse ==
  /\ call.fn = "formatResponse"
  /\ ret = <<>>
  /\ ret' = <<formatResponse(call.output, call.verificationReport,
                             call.includeDiagram)>>
  /\ UNCHANGED <<call, orchVars, adVars, routeVars, concVars>>

ApplyValidatePDF ==
  /\ call.fn = "validatePDF"
  /\ ret = <<>>
  /\ ret' = <<validatePDF(call.buffer)>>
  /\ UNCHANGED <<call, orchVars, adVars, routeVars, concVars>>

PureNext ==
  \/ ApplyCalculatePercentageError
  \/ ApplyVerifyResponse
  \/ ApplyFormatErrorResponse
  \/ ApplyFormatResponse
  \/ ApplyValidatePDF

PureSpec == PureInit /\ [][PureNext]_vars

\* C23: every output of verifyDiagram has verified = report.passed, true
\* exactly when the report has no discrepancy and overallAccuracy is at least
\* 1 - threshold; one discrepancy gives verified = false at any accuracy, and
\* the flag the raw response claims plays no part.
C23_PassedIffNoDiscrepancyAndAccurate ==
  (Applied("verifyResponse") /\ ret[1].ok) =>
    LET out == ret[1]
    IN  /\ out.verified = out.report.passed
        /\ out.verified <=>
             /\ Len(out.report.discrepancies) = 0
             /\ out.report.overallAccuracy >= 1000 - call.threshold

C23_Witness ==
  /\ Applied("verifyResponse")
  /\ ret[1].ok
  /\ Len(ret[1].report.discrepancies) = 1
  /\ ret[1].report.overallAccuracy = 1000
  /\ call.claimedVerified
  /\ ~ret[1].verified

\* C24: calculatePercentageError returns |actual - expected| / expected * 100
\* for expected > 0, never a negative value; for expected = 0 it returns 0
\* when actual = 0 and +infinity otherwise.
C24_PercentageError ==
  Applied("calculatePercentageError") =>
    LET e == call.expected
        a == call.actual
        r == ret[1]
    IN  /\ e > 0 =>
             /\ ~r.inf
             /\ r.den > 0
             /\ r.num >= 0
             /\ r.num * e = Abs(a - e) * 100 * r.den
        /\ (e = 0 /\ a = 0) => (~r.inf /\ r.num = 0)
        /\ (e = 0 /\ a # 0) => r.inf

C24_Witness ==
  /\ Applied("calculatePercentageError")
  /\ call.expected = 100
  /\ call.actual = 90
  /\ ret[1].num = 10 * ret[1].den

\* C25: every discrepancy of a report returned by verifyDiagram has a
\* non-negative percentageError equal to |actual - expected| / expected * 100
\* of its own expected and actual, whatever the raw response stated.
C25_DiscrepancyErrorRecomputed ==
  (Applied("verifyResponse") /\ ret[1].ok) =>
    \A i \in 1..Len(ret[1].report.discrepancies) :
      LET d == ret[1].report.discrepancies[i]
          pe == calculatePercentageError(d.expected, d.actual)
      IN  /\ d.percentageError >= 0
          /\ ~pe.inf
          /\ d.percentageError * pe.den = pe.num

\* the count formatErrorResponse is to report for its argument partialResults
BestKnownCount(partialResults) ==
  IF partialResults = <<>> THEN 0
  ELSE IF partialResults[1].flowsCount # <<>>
    THEN partialResults[1].flowsCount[1]
  ELSE IF partialResults[1].flows # <<>>
    THEN Len(partialResults[1].flows[1])
    ELSE 0

\* C27: for every error and every optional partialResults,
\* formatErrorResponse returns success=false, verified=false, accuracy 0,
\* flowsVerified 0, and flowsTotal and flowsExtracted both equal to
\* partialResults.flowsCount if given, else to partialResults.flows.length if
\* given, else to 0; partialResults is in the response exactly when it was
\* supplied, with its flows unchanged.
C27_FormatErrorResponse ==
  Applied("formatErrorResponse") =>
    LET r == ret[1]
        pr == call.partialResults
    IN  /\ ~r.success
        /\ ~r.verification.verified
        /\ r.verification.accuracy = 0
        /\ r.verification.flowsVerified = 0
        /\ r.verification.flowsTotal = BestKnownCount(pr)
        /\ r.processing.flowsExtracted = BestKnownCount(pr)
        /\ (r.partialResults # <<>>) <=> (pr # <<>>)
        /\ pr # <<>> => r.partialResults[1].flows = pr[1].flows

C27_Witness ==
  /\ Applied("formatErrorResponse")
  /\ call.partialResults # <<>>
  /\ call.partialResults[1].flowsCount = <<1>>
  /\ call.partialResults[1].flows = << <<100, 250>> >>
  /\ ret[1].verification.flowsTotal = 1
  /\ ret[1].partialResults[1].flows = << <<100, 250>> >>

\* C28: in every formatted response that carries an error, from
\* formatErrorResponse or from formatResponse, error.recoverable is false
\* exactly when the code is UNKNOWN_ERROR and true for every other code.
C28_RecoverableUnlessUnknown ==
  ((Applied("formatErrorResponse") \/ Applied("formatResponse"))
     /\ ret[1].error # <<>>) =>
    /\ ret[1].error[1].recoverable <=> ret[1].error[1].code # "UNKNOWN_ERROR"
    /\ ret[1].error[1].code \in
         {"PDF_ERROR", "EXTRACTION_ERROR", "GENERATION_ERROR",
          "VERIFICATION_ERROR"} => ret[1].error[1].recoverable

C28_Witness ==
  /\ Applied("formatResponse")
  /\ ret[1].error # <<>>
  /\ ret[1].error[1].code = "PDF_ERROR"
  /\ ret[1].error[1].recoverable

\* C29: in every formatted response verification.flowsTotal equals
\* metadata.processing.flowsExtracted of the same response, for every output,
\* every optional verification report and every optional partial results.
C29_FlowsTotalIsExtractedCount ==
  (Applied("formatErrorResponse") \/ Applied("formatResponse")) =>
    ret[1].verification.flowsTotal = ret[1].processing.flowsExtracted

\* the extraction adapter returned flows to the run
ExtractionSucceeded == ExtractCalls # <<>> /\ ExtractCalls[1].ok

\* C30: when a run's extraction succeeded and a later stage failed, the
\* response formatResponse builds from the run's result has success=false
\* and partialResults with flowsCount equal to the number of extracted flows;
\* formatResponse attaches partialResults exactly when success=false and
\* flowsExtracted > 0, never on success.
C30_PartialResultsAttached ==
  Returned =>
    \A inc \in BOOLEAN :
      LET r == formatResponse(result, <<>>, inc)
      IN  /\ (r.partialResults # <<>>) <=>
               (~result.success /\ result.flowsExtracted > 0)
          /\ result.success => r.partialResults = <<>>
          /\ (ExtractionSucceeded /\ ~result.success) =>
               /\ ~r.success
               /\ r.partialResults # <<>>
               /\ r.partialResults[1].flowsCount =
                    <<Len(ExtractCalls[1].flows)>>

C30_Witness ==
  /\ Returned
  /\ ExtractionSucceeded
  /\ ExhaustedReturn
  /\ ~result.hasError
  /\ formatResponse(result, <<>>, TRUE).partialResults =
       <<[flows |-> <<>>, flowsCount |-> <<Len(ExtractCalls[1].flows)>>]>>

\* ---------------------------------------------- the order of a run's calls
\* a call of op returned before position i of the log
OkBefore(op, i) == \E j \in 1..(i - 1) : log[j].op = op /\ log[j].ok

StageRank(op) ==
  CASE op = "extractFinancialData" -> 1
    [] op = "generateDiagram" -> 2
    [] op = "verifyDiagram" -> 3
    [] OTHER -> 0

\* the number of verifyDiagram calls among the first i calls
VerifyIndex(i) ==
  Cardinality({j \in 1..i : log[j].op = "verifyDiagram"})

\* C31: the stages of a run are sequential in the order parse, extract,
\* generate, verify, with verify -> generate as the only backward step:
\* extraction is called only after the run record was created with status
\* processing and the input uploaded; generation only after extraction
\* returned and the flows were stored; verification only after a generation
\* returned; the status becomes completed only after the verification record
\* was stored.
C31_StagesSequential ==
  /\ \A i \in 1..Len(log) :
       /\ log[i].op = "extractFinancialData" =>
            /\ \E j \in 1..(i - 1) :
                 /\ log[j].op = "createStatement"
                 /\ log[j].ok
                 /\ log[j].status = "processing"
            /\ OkBefore("uploadPDF", i)
            /\ OkBefore("extractPDFText", i)
       /\ log[i].op = "generateDiagram" =>
            /\ OkBefore("extractFinancialData", i)
            /\ OkBefore("insertFlows", i)
       /\ log[i].op = "verifyDiagram" => OkBefore("generateDiagram", i)
       /\ (log[i].op = "updateStatementStatus" /\ log[i].ok
             /\ log[i].status = "completed") =>
            OkBefore("createVerification", i)
  /\ \A i \in 1..Len(log) : \A j \in (i + 1)..Len(log) :
       (IsAdapterCall(log[i]) /\ IsAdapterCall(log[j])) =>
         \/ StageRank(log[i].op) <= StageRank(log[j].op)
         \/ /\ log[i].op = "verifyDiagram"
            /\ log[j].op = "generateDiagram"
  /\ dbStatus = "completed" => dbVerification # <<>>

C31_Witness ==
  /\ Returned
  /\ result.success
  /\ dbStatus = "completed"
  /\ Len(GenerateCalls) = 2
  /\ Len(VerifyCalls) = 2

C33_RegenerationOnlyOnMismatch ==
  \A i \in 1..Len(log) :
    /\ log[i].op = "verifyDiagram" =>
         LET mismatch == log[i].ok /\ ~log[i].verified /\ VerifyIndex(i) < 3
         IN  /\ mismatch =>
                  /\ i < Len(log) => log[i + 1].op = "generateDiagram"
                  /\ Returned => i < Len(log)
             /\ ~mismatch =>
                  (i < Len(log) => log[i + 1].op # "generateDiagram")
             /\ (~log[i].ok /\ VerifyIndex(i) < 3 /\ i < Len(log)) =>
                  /\ log[i + 1].op = "verifyDiagram"
                  /\ log[i + 1].diagram = log[i].diagram
    /\ (log[i].op = "generateDiagram" /\ OkBefore("generateDiagram", i)) =>
         log[i - 1].op = "verifyDiagram"

C33_Witness ==
  /\ Returned
  /\ Len(VerifyCalls) = 3
  /\ ~VerifyCalls[1].ok
  /\ VerifyCalls[2].ok
  /\ ~VerifyCalls[2].verified
  /\ Len(GenerateCalls) = 2
  /\ VerifyCalls[3].verified

\* ------------------------------------------- extraction errors and the blob
\* C36: a result with error.code = EXTRACTION_ERROR has flowsExtracted = 0,
\* also when persisting the flows failed after the adapter returned.
C36_ExtractionErrorZeroFlows ==
  (Returned /\ result.hasError /\ result.error.code = "EXTRACTION_ERROR") =>
    result.flowsExtracted = 0

\* the diagram of the last uploadDiagram call that returned before position i
StoredBefore(i) ==
  LET ups == {j \in 1..(i - 1) : log[j].op = "uploadDiagram" /\ log[j].ok}
  IN  IF ups = {} THEN -1
      ELSE log[CHOOSE j \in ups : \A k \in ups : k <= j].diagram

\* C37: every diagram passed to verifyDiagram, and every diagram returned
\* with success = true, equals the blob most recently stored under the run's
\* diagram key, also after a regeneration whose upload failed.
C37_VerifiedDiagramIsStored ==
  /\ \A i \in 1..Len(log) :
       log[i].op = "verifyDiagram" => log[i].diagram = StoredBefore(i)
  /\ (Returned /\ result.success) => result.diagram = diagramBlob

CallerStatuses == {"none", "pending"}

\* the PDF fetched from storage, handed to orchestrate as a Buffer
FetchedInputs == {i \in Inputs : i.kind = "buffer"}

RouteInit ==
  /\ input = [kind |-> "buffer", len |-> MinPdfSize, header |-> "%PDF"]
  /\ pc = "idle"
  /\ retries = 0
  /\ statementId = 0
  /\ extractedFlows = <<>>
  /\ diagramBuffer = -1
  /\ verificationResult = <<>>
  /\ verificationPassed = FALSE
  /\ attempt = 1
  /\ caught = NoError
  /\ result = NoResult
  /\ rejected = FALSE
  /\ dbStatus = "none"
  /\ dbFlows = <<>>
  /\ dbVerification = <<>>
  /\ pdfBlob = FALSE
  /\ diagramBlob = -1
  /\ log = <<>>
  /\ AdapterIdle
  /\ PureIdle
  /\ ConcIdle
  /\ routePc = "start"
  /\ callerStatus \in CallerStatuses
  /\ response = NoResponse

\* NextResponse.json(body, {status}) without a result of the pipeline
Respond(status) ==
  /\ response' = [status |-> status, success |-> FALSE,
                  fromPipeline |-> FALSE]
  /\ routePc' = "responded"

\* Supabase not configured (500) or no statementId in the body (400)
RouteReject ==
  /\ routePc = "start"
  /\ \E status \in {500, 400} : Respond(status)
  /\ UNCHANGED <<callerStatus, orchVars, adVars, pureVars, concVars>>

\* getStatement(statementId): null gives 404, a throw the handler's catch
RouteGetStatement ==
  /\ routePc = "start"
  /\ \/ IF callerStatus = "none" THEN Respond(404)
        ELSE /\ routePc' = "update"
             /\ UNCHANGED response
     \/ Respond(500)
  /\ UNCHANGED <<callerStatus, orchVars, adVars, pureVars, concVars>>

\* await updateStatementStatus(statementId, 'processing')
RouteUpdateProcessing ==
  /\ routePc = "update"
  /\ \/ /\ callerStatus' = "processing"
        /\ routePc' = "fetch"
        /\ UNCHANGED response
     \/ /\ Respond(500)
        /\ UNCHANGED callerStatus
  /\ UNCHANGED <<orchVars, adVars, pureVars, concVars>>

\* getPDFUrl and fetch; then orchestrate(orchestratorInput) starts
RouteFetchPDF ==
  /\ routePc = "fetch"
  /\ \/ /\ \E i \in FetchedInputs : input' = i
        /\ pc' = "start"
        /\ routePc' = "orchestrate"
        /\ UNCHANGED response
     \/ /\ Respond(500)
        /\ UNCHANGED <<input, pc>>
  /\ UNCHANGED <<callerStatus, retries, statementId, extractedFlows,
                 diagramBuffer, verificationResult, verificationPassed,
                 attempt, caught, result, rejected, dbStatus, dbFlows,
                 dbVerification, pdfBlob, diagramBlob, log>>
  /\ UNCHANGED <<adVars, pureVars, concVars>>

\* the response built from the result of orchestrate
RouteRespond ==
  /\ routePc = "orchestrate"
  /\ Returned
  /\ response' = [status |-> 200, success |-> result.success,
                  fromPipeline |-> TRUE]
  /\ routePc' = "responded"
  /\ UNCHANGED <<callerStatus, orchVars, adVars, pureVars, concVars>>

RouteNext ==
  \/ RouteReject
  \/ RouteGetStatement
  \/ RouteUpdateProcessing
  \/ RouteFetchPDF
  \/ RouteRespond
  \/ Next

RouteSpec == RouteInit /\ [][RouteNext]_vars

\* C38: after POST /api/process for a statement S has responded with the
\* pipeline's outcome, the stored status of S's own record is completed when
\* the pipeline succeeded and failed otherwise.
C38_CallerStatusFollowsOutcome ==
  (routePc = "responded" /\ response.fromPipeline) =>
    callerStatus = IF response.success THEN "completed" ELSE "failed"

\* ------------------------------------------------ concurrent runs, one store
\* the number of runs of orchestrate executing at once
MaxRuns == 2

Runs == 1..MaxRuns

\* the row createStatement inserts; the By fields name the run that wrote last
NewRecord(r) ==
  [creator |-> r, status |-> "processing", statusBy |-> r, flowsBy |-> 0,
   verificationBy |-> 0]

\* uploadPDF(buffer, `${statementId}.pdf`, statementId)
PdfPath(id) == [dir |-> id, name |-> "pdf"]

\* every run storing its diagram under one fixed path
DiagramPathShared(id) == [dir |-> 0, name |-> "diagram"]

\* uploadDiagram(buffer, `${statementId}-diagram.png`, statementId)
DiagramPath(id) == [dir |-> id, name |-> "diagram"]

\* storage upload with upsert: the blob under the path is replaced
Upload(path, r) ==
  {b \in blobs : b.path # path} \cup {[path |-> path, bytes |-> r]}

ConcInit ==
  /\ input = [kind |-> "buffer", len |-> MinPdfSize, header |-> "%PDF"]
  /\ pc = "idle"
  /\ retries = 0
  /\ statementId = 0
  /\ extractedFlows = <<>>
  /\ diagramBuffer = -1
  /\ verificationResult = <<>>
  /\ verificationPassed = FALSE
  /\ attempt = 1
  /\ caught = NoError
  /\ result = NoResult
  /\ rejected = FALSE
  /\ dbStatus = "none"
  /\ dbFlows = <<>>
  /\ dbVerification = <<>>
  /\ pdfBlob = FALSE
  /\ diagramBlob = -1
  /\ log = <<>>
  /\ AdapterIdle
  /\ PureIdle
  /\ RouteIdle
  /\ runPc = [r \in Runs |-> "createStatement"]
  /\ runId = [r \in Runs |-> 0]
  /\ runAttempt = [r \in Runs |-> 1]
  /\ nextId = 1
  /\ records = <<>>
  /\ blobs = {}
  /\ storeWrites = {}

\* run r moves to position p
Goto(r, p) == runPc' = [runPc EXCEPT ![r] = p]

\* run r issues the store call op on its statementId
Writes(r, op) ==
  storeWrites' = storeWrites \cup {[run |-> r, op |-> op, id |-> runId[r]]}

\* updateStatementStatus(statementId, status): .eq('id', id)
SetStatus(r, status) ==
  records' = [records EXCEPT ![runId[r]].status = status,
                             ![runId[r]].statusBy = r]

ConcFrame == UNCHANGED <<orchVars, adVars, pureVars, routeVars>>

\* createStatement: the store generates the id of the new row
RunCreateStatement(r) ==
  /\ runPc[r] = "createStatement"
  /\ \/ /\ runId' = [runId EXCEPT ![r] = nextId]
        /\ nextId' = nextId + 1
        /\ records' = Append(records, NewRecord(r))
        /\ storeWrites' =
             storeWrites \cup
               {[run |-> r, op |-> "createStatement", id |-> nextId]}
        /\ Goto(r, "uploadPDF")
     \/ /\ Goto(r, "outerCatch")
        /\ UNCHANGED <<runId, nextId, records, storeWrites>>
  /\ UNCHANGED <<runAttempt, blobs>>
  /\ ConcFrame

RunUploadPDF(r) ==
  /\ runPc[r] = "uploadPDF"
  /\ Writes(r, "uploadPDF")
  /\ \/ /\ blobs' = Upload(PdfPath(runId[r]), r)
        /\ Goto(r, "extract")
     \/ /\ Goto(r, "outerCatch")
        /\ UNCHANGED blobs
  /\ UNCHANGED <<runId, runAttempt, nextId, records>>
  /\ ConcFrame

\* extractFinancialData or generateDiagram: no store access
RunAdapter(r) ==
  /\ \/ /\ runPc[r] = "extract"
        /\ \/ Goto(r, "insertFlows")
           \/ Goto(r, "stageCatch")
     \/ /\ runPc[r] = "generate"
        /\ \/ Goto(r, "uploadDiagram")
           \/ Goto(r, "stageCatch")
     \/ /\ runPc[r] = "regenerate"
        /\ \/ Goto(r, "regenUpload")
           \/ Goto(r, "loopCatch")
  /\ UNCHANGED <<runId, runAttempt, nextId, records, blobs, storeWrites>>
  /\ ConcFrame

RunInsertFlows(r) ==
  /\ runPc[r] = "insertFlows"
  /\ Writes(r, "insertFlows")
  /\ \/ /\ records' = [records EXCEPT ![runId[r]].flowsBy = r]
        /\ Goto(r, "updateProcessing")
     \/ /\ Goto(r, "stageCatch")
        /\ UNCHANGED records
  /\ UNCHANGED <<runId, runAttempt, nextId, blobs>>
  /\ ConcFrame

RunUpdateProcessing(r) ==
  /\ runPc[r] = "updateProcessing"
  /\ Writes(r, "updateStatementStatus")
  /\ \/ /\ SetStatus(r, "processing")
        /\ Goto(r, "generate")
     \/ /\ Goto(r, "stageCatch")
        /\ UNCHANGED records
  /\ UNCHANGED <<runId, runAttempt, nextId, blobs>>
  /\ ConcFrame

\* the first upload of the diagram and the upload after a regeneration
RunUploadDiagram(r) ==
  /\ runPc[r] \in {"uploadDiagram", "regenUpload"}
  /\ Writes(r, "uploadDiagram")
  /\ \/ /\ blobs' = Upload(DiagramPath(runId[r]), r)
        /\ IF runPc[r] = "uploadDiagram"
             THEN /\ Goto(r, "verify")
                  /\ UNCHANGED runAttempt
             ELSE /\ Goto(r, "verify")
                  /\ runAttempt' = [runAttempt EXCEPT ![r] = @ + 1]
     \/ /\ UNCHANGED <<blobs, runAttempt>>
        /\ IF runPc[r] = "uploadDiagram"
             THEN Goto(r, "stageCatch")
             ELSE Goto(r, "loopCatch")
  /\ UNCHANGED <<runId, nextId, records>>
  /\ ConcFrame

\* one verifyDiagram call of the loop: passed, not passed, or thrown
RunVerify(r) ==
  /\ runPc[r] = "verify"
  /\ \/ /\ Goto(r, "createVerification:passed")
        /\ UNCHANGED runAttempt
     \/ IF ShouldRegenerate(runAttempt[r])
          THEN /\ Goto(r, "regenerate")
               /\ UNCHANGED runAttempt
          ELSE /\ Goto(r, "createVerification:failed")
               /\ UNCHANGED runAttempt
     \/ /\ Goto(r, "loopCatch")
        /\ UNCHANGED runAttempt
  /\ UNCHANGED <<runId, nextId, records, blobs, storeWrites>>
  /\ ConcFrame

\* the catch of the loop: rethrow on the last attempt, else the next attempt
RunLoopCatch(r) ==
  /\ runPc[r] = "loopCatch"
  /\ IF IsFinalAttempt(runAttempt[r])
       THEN /\ Goto(r, "outerCatch")
            /\ UNCHANGED runAttempt
       ELSE /\ Goto(r, "verify")
            /\ runAttempt' = [runAttempt EXCEPT ![r] = @ + 1]
  /\ UNCHANGED <<runId, nextId, records, blobs, storeWrites>>
  /\ ConcFrame

RunCreateVerification(r) ==
  /\ runPc[r] \in {"createVerification:passed", "createVerification:failed"}
  /\ Writes(r, "createVerification")
  /\ \/ /\ records' = [records EXCEPT ![runId[r]].verificationBy = r]
        /\ IF runPc[r] = "createVerification:passed"
             THEN Goto(r, "finalStatus:completed")
             ELSE Goto(r, "finalStatus:failed")
     \/ /\ Goto(r, "outerCatch")
        /\ UNCHANGED records
  /\ UNCHANGED <<runId, runAttempt, nextId, blobs>>
  /\ ConcFrame

RunFinalStatus(r) ==
  /\ runPc[r] \in {"finalStatus:completed", "finalStatus:failed"}
  /\ Writes(r, "updateStatementStatus")
  /\ \/ IF runPc[r] = "finalStatus:completed"
          THEN /\ SetStatus(r, "completed")
               /\ Goto(r, "done:completed")
          ELSE /\ SetStatus(r, "failed")
               /\ Goto(r, "done:failed")
     \/ /\ Goto(r, "outerCatch")
        /\ UNCHANGED records
  /\ UNCHANGED <<runId, runAttempt, nextId, blobs>>
  /\ ConcFrame

\* the unguarded updateStatementStatus(statementId, 'failed') of a stage's
\* catch block, then the throw to the outer catch
RunStageCatch(r) ==
  /\ runPc[r] = "stageCatch"
  /\ Writes(r, "updateStatementStatus")
  /\ \/ SetStatus(r, "failed")
     \/ UNCHANGED records
  /\ Goto(r, "outerCatch")
  /\ UNCHANGED <<runId, runAttempt, nextId, blobs>>
  /\ ConcFrame

\* the outer catch: if (statementId) updateStatementStatus(failed), guarded
RunOuterCatch(r) ==
  /\ runPc[r] = "outerCatch"
  /\ IF runId[r] # 0
       THEN /\ Writes(r, "updateStatementStatus")
            /\ \/ SetStatus(r, "failed")
               \/ UNCHANGED records
       ELSE UNCHANGED <<records, storeWrites>>
  /\ Goto(r, "done:error")
  /\ UNCHANGED <<runId, runAttempt, nextId, blobs>>
  /\ ConcFrame

ConcNext ==
  \E r \in Runs :
    \/ RunCreateStatement(r)
    \/ RunUploadPDF(r)
    \/ RunAdapter(r)
    \/ RunInsertFlows(r)
    \/ RunUpdateProcessing(r)
    \/ RunUploadDiagram(r)
    \/ RunVerify(r)
    \/ RunLoopCatch(r)
    \/ RunCreateVerification(r)
    \/ RunFinalStatus(r)
    \/ RunStageCatch(r)
    \/ RunOuterCatch(r)

ConcSpec == ConcInit /\ [][ConcNext]_vars

\* C34: concurrent runs share only the store, and in it each run writes only
\* the record and the blobs keyed by the id it created: ids of different runs
\* differ, every store call of a run targets its own id, every field of a
\* record was last written by the run that created it, every blob lies under
\* the directory of the run whose bytes it holds, and the final status of a
\* run's record is the one that run wrote, whatever the other runs do.
C34_RunsWriteOnlyTheirOwn ==
  /\ \A r1, r2 \in Runs :
       (r1 # r2 /\ runId[r1] # 0) => runId[r1] # runId[r2]
  /\ \A w \in storeWrites : w.id # 0 /\ w.id = runId[w.run]
  /\ \A id \in 1..Len(records) :
       /\ runId[records[id].creator] = id
       /\ records[id].statusBy = records[id].creator
       /\ records[id].flowsBy \in {0, records[id].creator}
       /\ records[id].verificationBy \in {0, records[id].creator}
  /\ \A b \in blobs : b.path.dir # 0 /\ b.path.dir = runId[b.bytes]
  /\ \A r \in Runs :
       /\ runPc[r] = "done:completed" =>
            /\ records[runId[r]].status = "completed"
            /\ records[runId[r]].verificationBy = r
            /\ [path |-> DiagramPath(runId[r]), bytes |-> r] \in blobs
       /\ runPc[r] = "done:failed" => records[runId[r]].status = "failed"

\* both runs in flight, created in the opposite order, one in its second
\* verification attempt while the other has stored its first diagram
C34_Witness ==
  /\ runPc # <<>>
  /\ runId[1] = 2
  /\ runId[2] = 1
  /\ runPc[1] = "verify"
  /\ runAttempt[1] = 2
  /\ runPc[2] = "verify"
  /\ Cardinality(blobs) = 4
====
